---- MODULE Spec2Model ----
(***************************************************************************)
(* Resumable chunked upload of FileServiceImpl                             *)
(* (src/main/app/service/impl/file_service_impl.py) with FileMapper        *)
(* (src/main/app/mapper/file_mapper.py).                                   *)
(*                                                                         *)
(* The service runs on one asyncio event loop: the code between two awaits *)
(* of a handler is one atomic step, and other requests run only while a    *)
(* handler is suspended at an await.  Each action below is one such step.  *)
(* An await that touches no shared state (file.read() of the request body, *)
(* a SELECT whose result is only used after resumption) is folded into the *)
(* step that follows or precedes it; this loses no interleaving because    *)
(* the two steps commute with every step of every other request.           *)
(***************************************************************************)
EXTENDS Integers, Sequences, FiniteSets, TLC

VARIABLES
    metadata,   \* METADATA_DIR: upload id -> content of <upload_id>.json
    tempDir,    \* TEMP_DIR: upload id -> chunk directory and its chunk files
    uploadDir,  \* UPLOAD_DIR: upload id -> final file <upload_id>_<name>
    files,      \* table "files": one row per file_uuid
    calls,      \* requests in flight: position and locals of each handler
    last,       \* the response most recently returned to a client
    \* the multipart upload of file/local.py, kept in the database
    File,                 \* table File: file id -> status of the row
    MultipartUpload,      \* table MultipartUpload: file id -> part_count
    MultipartUploadPart,  \* table MultipartUploadPart: file id -> part numbers
    partFiles,            \* temp/<upload_id>/part-NNNNN: content of each part
    storedFile,           \* uploads/<user_id>/<file_id>-<filename>
    threads,              \* worker threads between two transactions
    reply                 \* the response most recently returned by local.py

chunkedVars == <<metadata, tempDir, uploadDir, files, calls, last>>
multipartVars == <<File, MultipartUpload, MultipartUploadPart, partFiles,
                   storedFile, threads, reply>>
vars == <<metadata, tempDir, uploadDir, files, calls, last,
          File, MultipartUpload, MultipartUploadPart, partFiles,
          storedFile, threads, reply>>

\* ----------------------------------------------------------------- bounds
MaxUploads == 2
MaxChunks == 2
MaxCalls == 2
NumBytes == 2
\* requests overlap only while at most this many sessions exist; with more
\* sessions the requests are served one after the other
MaxSharedSessions == 1

UploadIds == 1..MaxUploads
CallIds == 1..MaxCalls
Bytes == 1..NumBytes
\* chunk_number as a client may send it: one below and one above the range
ChunkNumbers == (0 - 1)..MaxChunks
\* the bytes of one chunk
ChunkContents == {<<b>> : b \in Bytes}
\* the files clients upload, one chunk per byte: <<1>>, <<1,2>>, ...; an
\* init request declares the chunk count and the digest of one of them
OriginalFiles == {[i \in 1..k |-> ((i - 1) % NumBytes) + 1] : k \in 1..MaxChunks}

\* file/local.py: files, parts per file and worker threads
MaxFiles == 2
MaxParts == 2
MaxThreads == 2

FileIds == 1..MaxFiles
ThreadIds == 1..MaxThreads
\* part_count = ceil(size / part_size) of an init request; 0 for size 0
PartCounts == 0..MaxParts
\* part_number as a client may send it: one below and one above the range
PartNumbers == 0..(MaxParts + 1)
\* FileStatus of app.schema.enum as local.py uses it
FileStatus == {"uploading", "merging", "ok", "error"}
\* no row in File, no row in MultipartUpload, no part file, no final file
NoFileRow == "none"
NoUpload == 0 - 1
NoPart == 0
NoStoredFile == [exists |-> FALSE, content |-> <<>>]
IdleThread == [pc |-> "idle"]
NoReply == [op |-> "none", file_id |-> 0, code |-> "none", data |-> <<>>]

\* ------------------------------------------------------------ file_util.py
\* hashlib.sha256 as a collision-free digest of a byte string: the bytes read
\* as a bijective base-(NumBytes+1) numeral, so that both the bytes and their
\* order decide the digest.
RECURSIVE sha256(_)
sha256(content) ==
    IF content = <<>> THEN 0
    ELSE Head(content) + (NumBytes + 1) * sha256(Tail(content))

calculate_chunk_sha256(content) == sha256(content)

\* reads the file in 8192-byte blocks and feeds them to one sha256 object
calculate_file_sha256(content) == sha256(content)

ChunkHashes == {calculate_chunk_sha256(c) : c \in ChunkContents}

\* --------------------------------------------------------------- storage
NoMeta == [exists |-> FALSE]
NoDir == [exists |-> FALSE]
NoFile == [exists |-> FALSE]
NoRow == [exists |-> FALSE]
Idle == [pc |-> "idle"]
NoResponse == [op |-> "none"]

\* list(range(total_chunks))
Range(total_chunks) == [i \in 1..total_chunks |-> i - 1]

\* set(list)
ToSet(list) == {list[i] : i \in 1..Len(list)}

\* chunk_number in metadata['uploaded_chunks']
Contains(list, x) == \E i \in 1..Len(list) : list[i] = x

\* MissingChunks with a fault: every chunk number is reported missing
MissingChunksAll(md) == Range(md.total_chunks)

\* sorted(set(range(total_chunks)) - set(uploaded_chunks))
MissingChunks(md) ==
    SelectSeq(Range(md.total_chunks), LAMBDA i : ~Contains(md.uploaded_chunks, i))

\* AppendSorted with a fault: the chunk number is not recorded
AppendDropped(list, chunk_number) == list

\* uploaded_chunks.append(chunk_number); uploaded_chunks.sort()
AppendSorted(list, chunk_number) ==
    SortSeq(Append(list, chunk_number), LAMBDA a, b : a < b)

\* rmtree with a fault: the directory and its chunk files are left in place
rmtree_skipped(dir) == dir

\* shutil.rmtree(temp_upload_dir)
rmtree(dir) == NoDir

\* load_upload_metadata with a fault: a missing metadata file is read as an
\* empty session instead of raising 404
load_or_default(upload_id) ==
    IF metadata[upload_id].exists THEN metadata[upload_id]
    ELSE [exists |-> TRUE, upload_id |-> upload_id, total_chunks |-> 0,
          uploaded_chunks |-> <<>>, file_hash |-> 0, status |-> "uploading"]

\* os.path.exists(metadata_path) / json.load
load_upload_metadata(upload_id) == metadata[upload_id]

\* save_upload_metadata with a fault: the dictionary is written without the
\* declared digest
save_without_hash(upload_id, md) ==
    [metadata EXCEPT ![upload_id] = [md EXCEPT !.file_hash = 0]]

\* json.dump(metadata): the whole dictionary replaces the file.  The fields
\* no handler reads back (updated_at, final_path, the descriptive fields) are
\* left out of the dictionary.
save_upload_metadata(upload_id, md) == [metadata EXCEPT ![upload_id] = md]

\* find_by_hash with a fault: the state of the row is not looked at
find_by_hash_any_state(file_hash) ==
    {u \in UploadIds : files[u].exists /\ files[u].file_hash = file_hash}

\* FileMapper.find_by_hash: rows WHERE file_hash = h AND state = 1
find_by_hash(file_hash) ==
    {u \in UploadIds : /\ files[u].exists
                       /\ files[u].file_hash = file_hash
                       /\ files[u].state = 1}

\* find_by_uuid with a fault: the filter on deleted_at is turned round and the
\* rows that are not deleted are returned
find_by_uuid_not_deleted(upload_id) ==
    IF files[upload_id].exists /\ files[upload_id].deleted_at = "NULL"
    THEN files[upload_id]
    ELSE NoRow

\* FileMapper.find_by_uuid: row WHERE file_uuid = u AND deleted_at IS NOT NULL
find_by_uuid(upload_id) ==
    IF files[upload_id].exists /\ files[upload_id].deleted_at # "NULL"
    THEN files[upload_id]
    ELSE NoRow

\* a response returned to the client (an HTTPException is a response too)
Response(op, upload_id, code, kind, data) ==
    [op |-> op, upload_id |-> upload_id, code |-> code, kind |-> kind, data |-> data]

TypeOK ==
    /\ \A u \in UploadIds :
        /\ metadata[u].exists \in BOOLEAN
        /\ tempDir[u].exists \in BOOLEAN
        /\ uploadDir[u].exists \in BOOLEAN
        /\ files[u].exists \in BOOLEAN
    /\ \A c \in CallIds : calls[c].pc \in
            {"idle", "init_insert", "chunk_write", "chunk_save",
             "merge_find", "cancel_find"}

Init ==
    /\ metadata = [u \in UploadIds |-> NoMeta]
    /\ tempDir = [u \in UploadIds |-> NoDir]
    /\ uploadDir = [u \in UploadIds |-> NoFile]
    /\ files = [u \in UploadIds |-> NoRow]
    /\ calls = [c \in CallIds |-> Idle]
    /\ last = NoResponse
    /\ File = [f \in FileIds |-> NoFileRow]
    /\ MultipartUpload = [f \in FileIds |-> NoUpload]
    /\ MultipartUploadPart = [f \in FileIds |-> {}]
    /\ partFiles = [f \in FileIds |-> [n \in 1..MaxParts |-> NoPart]]
    /\ storedFile = [f \in FileIds |-> NoStoredFile]
    /\ threads = [t \in ThreadIds |-> IdleThread]
    /\ reply = NoReply

\* ------------------------------------------------------------- responses
\* the handler of call c returns (or raises) r
Return(c, r) ==
    /\ last' = r
    /\ calls' = [calls EXCEPT ![c] = Idle]

\* the handler of call c suspends at an await with locals frame
Suspend(c, frame) ==
    /\ calls' = [calls EXCEPT ![c] = frame]
    /\ UNCHANGED last

\* the upload ids a request can name: an id reaches a client only in the
\* response of init_chunked_upload (an id of no session stands for any id
\* that was never issued)
Known(upload_id) ==
    \A c \in CallIds : calls[c].pc = "init_insert" => calls[c].upload_id # upload_id

Sessions == {u \in UploadIds : metadata[u].exists}
InFlight == {c \in CallIds : calls[c] # Idle}

\* a request is taken up by the first idle slot (the bound on overlapping
\* requests)
FirstIdle(c) == calls[c] = Idle /\ \A d \in 1..(c - 1) : calls[d] # Idle

Admit(c) ==
    /\ FirstIdle(c)
    /\ Cardinality(Sessions) <= MaxSharedSessions \/ InFlight = {}

\* a request that creates a session is taken up by the idle slot c
AdmitInit(c) ==
    /\ FirstIdle(c)
    /\ Cardinality(Sessions) < MaxSharedSessions \/ InFlight = {}

\* FreshIds with a fault: every session is given the same id
FixedId == {1}

\* str(uuid.uuid4()): an id no session has (ids are allocated in order)
FreshIds == {u \in UploadIds : ~metadata[u].exists /\ \A v \in 1..(u - 1) : metadata[v].exists}

\* ------------------------------------------------- init_chunked_upload
\* check_file_exists_by_hash, then uuid4, makedirs, save_upload_metadata, up
\* to the await of mapper.insert
init_chunked_upload(c, total_chunks, file_hash) ==
    /\ AdmitInit(c)
    /\ LET existing == find_by_hash(file_hash) IN
       IF Cardinality(existing) > 1 THEN
            \* result.one_or_none() raises MultipleResultsFound
            /\ Return(c, Response("init", 0, 500, "server_error", <<>>))
            /\ UNCHANGED <<metadata, tempDir, uploadDir, files>>
       ELSE IF existing # {} THEN
            /\ Return(c, Response("init", 0, 200, "instant",
                                  <<files[CHOOSE u \in existing : TRUE].id>>))
            /\ UNCHANGED <<metadata, tempDir, uploadDir, files>>
       ELSE \E upload_id \in FreshIds :
            /\ tempDir' = [tempDir EXCEPT ![upload_id] =
                                [exists |-> TRUE, chunks |-> <<>>]]
            /\ metadata' = save_upload_metadata(upload_id,
                                [exists |-> TRUE,
                                 upload_id |-> upload_id,
                                 total_chunks |-> total_chunks,
                                 uploaded_chunks |-> <<>>,
                                 file_hash |-> file_hash,
                                 status |-> "uploading"])
            /\ Suspend(c, [pc |-> "init_insert", upload_id |-> upload_id,
                           file_hash |-> file_hash])
            /\ UNCHANGED <<uploadDir, files>>
    /\ UNCHANGED multipartVars

\* mapper.insert(FileModel(..., state=0)) and the success response
init_insert(c) ==
    /\ calls[c].pc = "init_insert"
    /\ LET upload_id == calls[c].upload_id IN
       /\ files' = [files EXCEPT ![upload_id] =
                        [exists |-> TRUE, id |-> upload_id,
                         file_hash |-> calls[c].file_hash, state |-> 0,
                         storage_path |-> "temp", deleted_at |-> "NULL"]]
       /\ Return(c, Response("init", upload_id, 200, "success", <<upload_id>>))
    /\ UNCHANGED <<metadata, tempDir, uploadDir>>
    /\ UNCHANGED multipartVars

\* ---------------------------------------------------------- upload_chunk
\* StatusRejectsChunks with a fault: chunks are refused while paused
StatusRejectsPaused(status) == status # "uploading"

\* metadata['status'] not in ['uploading', 'paused']
StatusRejectsChunks(status) == status \notin {"uploading", "paused"}

\* InvalidChunkNumber with a fault: a negative chunk number passes
ChunkNumberTooLarge(chunk_number, total_chunks) == chunk_number >= total_chunks

\* chunk_number < 0 or chunk_number >= metadata['total_chunks']
InvalidChunkNumber(chunk_number, total_chunks) ==
    chunk_number < 0 \/ chunk_number >= total_chunks

\* ChunkHashMismatch with a fault: the digest of the chunk is not compared
ChunkHashUnchecked(actual_hash, chunk_hash) == FALSE

\* actual_hash != chunk_hash
ChunkHashMismatch(actual_hash, chunk_hash) == actual_hash # chunk_hash

\* load, the status, range and membership checks, file.read() and the digest
\* check, up to the await of aiofiles.open
upload_chunk(c, upload_id, chunk_number, chunk_hash, content) ==
    /\ Admit(c)
    /\ Known(upload_id)
    /\ LET md == load_upload_metadata(upload_id) IN
       IF ~md.exists THEN
            Return(c, Response("upload_chunk", upload_id, 404, "not_found", <<>>))
       ELSE IF StatusRejectsChunks(md.status) THEN
            Return(c, Response("upload_chunk", upload_id, 400, "invalid_state", <<>>))
       ELSE IF InvalidChunkNumber(chunk_number, md.total_chunks) THEN
            Return(c, Response("upload_chunk", upload_id, 400, "invalid_chunk", <<>>))
       ELSE IF Contains(md.uploaded_chunks, chunk_number) THEN
            Return(c, Response("upload_chunk", upload_id, 200, "exists",
                               <<chunk_number>>))
       ELSE IF ChunkHashMismatch(calculate_chunk_sha256(content), chunk_hash) THEN
            Return(c, Response("upload_chunk", upload_id, 400, "hash_mismatch", <<>>))
       ELSE Suspend(c, [pc |-> "chunk_write", upload_id |-> upload_id,
                        chunk_number |-> chunk_number, content |-> content,
                        md |-> md])
    /\ UNCHANGED <<metadata, tempDir, uploadDir, files>>
    /\ UNCHANGED multipartVars

\* a chunk file chunk_<number> of a directory
WriteChunkFile(dir, chunk_number, content) ==
    [dir EXCEPT !.chunks = [i \in DOMAIN dir.chunks \cup {chunk_number} |->
                                IF i = chunk_number THEN content ELSE dir.chunks[i]]]

\* raise_server_error with a fault: the exception is swallowed and the call
\* goes on to record the chunk
error_swallowed(c, upload_id) == Suspend(c, [calls[c] EXCEPT !.pc = "chunk_save"])

\* except Exception as e: raise HTTPException(status_code=500, detail=str(e))
raise_server_error(c, upload_id) ==
    Return(c, Response("upload_chunk", upload_id, 500, "server_error", <<>>))

\* async with aiofiles.open(chunk_path, 'wb') as f: await f.write(content).
\* The directory is gone after rmtree, and then open raises FileNotFoundError.
\* Open and write are one step: the empty file between them is not modelled.
upload_chunk_write(c) ==
    /\ calls[c].pc = "chunk_write"
    /\ LET upload_id == calls[c].upload_id IN
       IF ~tempDir[upload_id].exists THEN
            /\ raise_server_error(c, upload_id)
            /\ UNCHANGED tempDir
       ELSE
            /\ tempDir' = [tempDir EXCEPT ![upload_id] =
                    WriteChunkFile(@, calls[c].chunk_number, calls[c].content)]
            /\ Suspend(c, [calls[c] EXCEPT !.pc = "chunk_save"])
    /\ UNCHANGED <<metadata, uploadDir, files>>
    /\ UNCHANGED multipartVars

\* after the file is closed: append, sort, save_upload_metadata of the
\* dictionary loaded when the call began
upload_chunk_save(c) ==
    /\ calls[c].pc = "chunk_save"
    /\ LET upload_id == calls[c].upload_id
           md == calls[c].md
       IN  /\ metadata' = save_upload_metadata(upload_id,
                    [md EXCEPT !.uploaded_chunks =
                                    AppendSorted(@, calls[c].chunk_number)])
           /\ Return(c, Response("upload_chunk", upload_id, 200, "success",
                                 <<calls[c].chunk_number>>))
    /\ UNCHANGED <<tempDir, uploadDir, files>>
    /\ UNCHANGED multipartVars

\* ---------------------------------------------------------- merge_chunks
\* os.path.exists(chunk_path) for chunk_<i> of a directory
ChunkFileExists(dir, i) == dir.exists /\ i \in DOMAIN dir.chunks

\* for chunk_number in range(from, total_chunks): outfile.write(infile.read());
\* the loop stops at the first chunk file that cannot be opened
RECURSIVE MergeFrom(_, _, _)
MergeFrom(dir, from, total_chunks) ==
    IF from >= total_chunks \/ ~ChunkFileExists(dir, from) THEN <<>>
    ELSE dir.chunks[from] \o MergeFrom(dir, from + 1, total_chunks)

\* MergedContent with a fault: the chunks are written from the last to the
\* first
RECURSIVE MergeDownFrom(_, _)
MergeDownFrom(dir, from) ==
    IF from < 0 \/ ~ChunkFileExists(dir, from) THEN <<>>
    ELSE dir.chunks[from] \o MergeDownFrom(dir, from - 1)

MergedDescending(dir, total_chunks) == MergeDownFrom(dir, total_chunks - 1)

\* what the merge loop leaves in the final file
MergedContent(dir, total_chunks) == MergeFrom(dir, 0, total_chunks)

\* every open(chunk_path, 'rb') of the loop succeeds
AllChunkFilesExist(dir, total_chunks) ==
    \A i \in 0..(total_chunks - 1) : ChunkFileExists(dir, i)

\* ChunksIncomplete with a fault: the count of uploaded chunks is not checked
ChunksNeverIncomplete(md) == FALSE

\* ChunksIncomplete with a fault: only an empty list counts as incomplete
NothingUploaded(md) == Len(md.uploaded_chunks) = 0

\* len(metadata['uploaded_chunks']) != metadata['total_chunks']
ChunksIncomplete(md) == Len(md.uploaded_chunks) # md.total_chunks

\* final_hash != metadata['file_hash']
FileHashMismatch(final_hash, file_hash) == final_hash # file_hash

\* load, the completeness check, the merge loop and the digest check, up to
\* the await of mapper.find_by_uuid
merge_chunks(c, upload_id) ==
    /\ Admit(c)
    /\ Known(upload_id)
    /\ LET md == load_upload_metadata(upload_id)
           dir == tempDir[upload_id]
       IN
       IF ~md.exists THEN
            /\ Return(c, Response("merge_chunks", upload_id, 404, "not_found", <<>>))
            /\ UNCHANGED uploadDir
       ELSE IF ChunksIncomplete(md) THEN
            /\ Return(c, Response("merge_chunks", upload_id, 400, "missing_chunks",
                                  MissingChunks(md)))
            /\ UNCHANGED uploadDir
       ELSE IF ~AllChunkFilesExist(dir, md.total_chunks) THEN
            \* FileNotFoundError inside the loop: open(final_path, 'wb') has
            \* truncated the final file and the chunks before the gap are in it
            /\ uploadDir' = [uploadDir EXCEPT ![upload_id] =
                    [exists |-> TRUE, content |-> MergedContent(dir, md.total_chunks)]]
            /\ Return(c, Response("merge_chunks", upload_id, 500, "server_error", <<>>))
       ELSE IF FileHashMismatch(
                    calculate_file_sha256(MergedContent(dir, md.total_chunks)),
                    md.file_hash) THEN
            \* os.remove(final_path)
            /\ uploadDir' = [uploadDir EXCEPT ![upload_id] = NoFile]
            /\ Return(c, Response("merge_chunks", upload_id, 500, "integrity_error", <<>>))
       ELSE
            /\ uploadDir' = [uploadDir EXCEPT ![upload_id] =
                    [exists |-> TRUE, content |-> MergedContent(dir, md.total_chunks)]]
            /\ Suspend(c, [pc |-> "merge_find", upload_id |-> upload_id, md |-> md])
    /\ UNCHANGED <<metadata, tempDir, files>>
    /\ UNCHANGED multipartVars

\* find_by_uuid, the update of the row it found, rmtree of the chunk
\* directory, status completed and the response.  No row has deleted_at set
\* (only cancel_upload sets it, on a row find_by_uuid returned), so the await
\* of mapper.update is never reached and is not a step of its own.
merge_chunks_finish(c) ==
    /\ calls[c].pc = "merge_find"
    /\ LET upload_id == calls[c].upload_id
           md == calls[c].md
           file_record == find_by_uuid(upload_id)
       IN
       /\ files' = IF file_record.exists
                   THEN [files EXCEPT ![upload_id] =
                            [@ EXCEPT !.storage_path = "final", !.state = 1]]
                   ELSE files
       /\ IF ~tempDir[upload_id].exists THEN
            \* shutil.rmtree raises FileNotFoundError
            /\ Return(c, Response("merge_chunks", upload_id, 500, "server_error", <<>>))
            /\ UNCHANGED <<metadata, tempDir>>
          ELSE
            /\ tempDir' = [tempDir EXCEPT ![upload_id] = rmtree(@)]
            /\ metadata' = save_upload_metadata(upload_id,
                                [md EXCEPT !.status = "completed"])
            /\ IF file_record.exists
               THEN Return(c, Response("merge_chunks", upload_id, 200, "success",
                                       <<file_record.id>>))
               \* file_record.id of None: AttributeError, caught and re-raised
               ELSE Return(c, Response("merge_chunks", upload_id, 500,
                                       "server_error", <<>>))
    /\ UNCHANGED uploadDir
    /\ UNCHANGED multipartVars

\* ----------------------------------------------------- get_upload_status
\* load and the ChunkedUploadStatus built from the dictionary (its status,
\* total_chunks and uploaded_chunks)
get_upload_status(upload_id) ==
    /\ Known(upload_id)
    /\ LET md == load_upload_metadata(upload_id) IN
       IF ~md.exists THEN
            last' = Response("get_upload_status", upload_id, 404, "not_found", <<>>)
       ELSE last' = Response("get_upload_status", upload_id, 200, "success",
                             <<md.status, md.total_chunks, md.uploaded_chunks>>)
    /\ UNCHANGED <<metadata, tempDir, uploadDir, files, calls>>
    /\ UNCHANGED multipartVars

\* ---------------------------------------------------------- list_uploads
\* the values of the status parameter: None, or a string compared with
\* metadata['status']
StatusFilters == {"None", "uploading", "paused", "completed", "cancelled"}

\* status is None or metadata['status'] == status
ListMatches(status, md) == status = "None" \/ md.status = status

\* os.listdir(METADATA_DIR), load of every <upload_id>.json and the
\* ChunkedUploadStatus of those that match, in the order of the directory
\* listing (the result is modelled as the set of its entries)
list_uploads(status) ==
    /\ last' = Response("list_uploads", 0, 200, "success",
                {<<u, load_upload_metadata(u).status,
                      load_upload_metadata(u).total_chunks,
                      load_upload_metadata(u).uploaded_chunks>> :
                    u \in {v \in Sessions : ListMatches(status, load_upload_metadata(v))}})
    /\ UNCHANGED <<metadata, tempDir, uploadDir, files, calls>>
    /\ UNCHANGED multipartVars

\* ------------------------------------------------- pause / resume / cancel
\* PauseRefused with a fault: a completed session can be paused
PauseRefusedUnlessCompleted(status) == status \notin {"uploading", "completed"}

\* metadata['status'] != 'uploading'
PauseRefused(status) == status # "uploading"

\* ResumeRefused with a fault: a cancelled session can be resumed
ResumeRefusedUnlessCancelled(status) == status \notin {"paused", "cancelled"}

\* metadata['status'] != 'paused'
ResumeRefused(status) == status # "paused"

\* load, the status check, status paused, save and the response, with no
\* await in between
pause_upload(upload_id) ==
    /\ Known(upload_id)
    /\ LET md == load_upload_metadata(upload_id) IN
       IF ~md.exists THEN
            /\ last' = Response("pause_upload", upload_id, 404, "not_found", <<>>)
            /\ UNCHANGED metadata
       ELSE IF PauseRefused(md.status) THEN
            /\ last' = Response("pause_upload", upload_id, 400, "invalid_state", <<>>)
            /\ UNCHANGED metadata
       ELSE
            /\ metadata' = save_upload_metadata(upload_id, [md EXCEPT !.status = "paused"])
            /\ last' = Response("pause_upload", upload_id, 200, "success",
                                md.uploaded_chunks)
    /\ UNCHANGED <<tempDir, uploadDir, files, calls>>
    /\ UNCHANGED multipartVars

\* load, the status check, status uploading, save and the response with the
\* missing chunk numbers, with no await in between
resume_upload(upload_id) ==
    /\ Known(upload_id)
    /\ LET md == load_upload_metadata(upload_id) IN
       IF ~md.exists THEN
            /\ last' = Response("resume_upload", upload_id, 404, "not_found", <<>>)
            /\ UNCHANGED metadata
       ELSE IF ResumeRefused(md.status) THEN
            /\ last' = Response("resume_upload", upload_id, 400, "invalid_state", <<>>)
            /\ UNCHANGED metadata
       ELSE
            /\ metadata' = save_upload_metadata(upload_id,
                                [md EXCEPT !.status = "uploading"])
            /\ last' = Response("resume_upload", upload_id, 200, "success",
                                MissingChunks(md))
    /\ UNCHANGED <<tempDir, uploadDir, files, calls>>
    /\ UNCHANGED multipartVars

\* path_exists with a fault: the directory is taken to be there
path_assumed(dir) == TRUE

\* os.path.exists(temp_upload_dir)
path_exists(dir) == dir.exists

\* load, rmtree of the chunk directory if it exists, status cancelled, up to
\* the await of mapper.find_by_uuid
cancel_upload(c, upload_id) ==
    /\ Admit(c)
    /\ Known(upload_id)
    /\ LET md == load_upload_metadata(upload_id) IN
       IF ~md.exists THEN
            /\ Return(c, Response("cancel_upload", upload_id, 404, "not_found", <<>>))
            /\ UNCHANGED <<metadata, tempDir>>
       ELSE IF path_exists(tempDir[upload_id]) /\ ~tempDir[upload_id].exists THEN
            \* shutil.rmtree raises FileNotFoundError, which nothing catches
            /\ Return(c, Response("cancel_upload", upload_id, 500, "server_error", <<>>))
            /\ UNCHANGED <<metadata, tempDir>>
       ELSE
            /\ tempDir' = IF path_exists(tempDir[upload_id])
                          THEN [tempDir EXCEPT ![upload_id] = rmtree(@)]
                          ELSE tempDir
            /\ metadata' = save_upload_metadata(upload_id,
                                [md EXCEPT !.status = "cancelled"])
            /\ Suspend(c, [pc |-> "cancel_find", upload_id |-> upload_id])
    /\ UNCHANGED <<uploadDir, files>>
    /\ UNCHANGED multipartVars

\* find_by_uuid, the soft delete of the row it found, and the response
cancel_upload_finish(c) ==
    /\ calls[c].pc = "cancel_find"
    /\ LET upload_id == calls[c].upload_id
           file_record == find_by_uuid(upload_id)
       IN
       /\ files' = IF file_record.exists
                   THEN [files EXCEPT ![upload_id] = [@ EXCEPT !.deleted_at = "now"]]
                   ELSE files
       /\ Return(c, Response("cancel_upload", upload_id, 200, "success", <<>>))
    /\ UNCHANGED <<metadata, tempDir, uploadDir>>
    /\ UNCHANGED multipartVars

\* ------------------------------------------------------------------ Next
Next ==
    \/ \E c \in CallIds, file \in OriginalFiles :
            init_chunked_upload(c, Len(file), calculate_file_sha256(file))
    \/ \E c \in CallIds : init_insert(c)
    \/ \E c \in CallIds, upload_id \in UploadIds, chunk_number \in ChunkNumbers,
          chunk_hash \in ChunkHashes, content \in ChunkContents :
            upload_chunk(c, upload_id, chunk_number, chunk_hash, content)
    \/ \E c \in CallIds : upload_chunk_write(c)
    \/ \E c \in CallIds : upload_chunk_save(c)
    \/ \E c \in CallIds, upload_id \in UploadIds : merge_chunks(c, upload_id)
    \/ \E c \in CallIds : merge_chunks_finish(c)
    \/ \E upload_id \in UploadIds : get_upload_status(upload_id)
    \/ \E upload_id \in UploadIds : pause_upload(upload_id)
    \/ \E upload_id \in UploadIds : resume_upload(upload_id)
    \/ \E c \in CallIds, upload_id \in UploadIds : cancel_upload(c, upload_id)
    \/ \E c \in CallIds : cancel_upload_finish(c)

Spec == Init /\ [][Next]_vars

\* ------------------------------------- process restart and store failure
\* The process stops while handlers are suspended at their awaits and is
\* started again: the handlers and their locals are gone, and __init__ finds
\* the directories and the table as they were left (makedirs exist_ok=True).
restart ==
    /\ InFlight # {}
    /\ calls' = [c \in CallIds |-> Idle]
    /\ UNCHANGED <<metadata, tempDir, uploadDir, files, last>>
    /\ UNCHANGED multipartVars

\* the process stops inside merge_chunks between shutil.rmtree and
\* save_upload_metadata: the chunk directory is removed and the metadata file
\* is as it was
merge_chunks_crash(c) ==
    /\ calls[c].pc = "merge_find"
    /\ tempDir[calls[c].upload_id].exists
    /\ LET upload_id == calls[c].upload_id
           file_record == find_by_uuid(upload_id)
       IN
       /\ files' = IF file_record.exists
                   THEN [files EXCEPT ![upload_id] =
                            [@ EXCEPT !.storage_path = "final", !.state = 1]]
                   ELSE files
       /\ tempDir' = [tempDir EXCEPT ![upload_id] = rmtree(@)]
    /\ calls' = [d \in CallIds |-> Idle]
    /\ UNCHANGED <<metadata, uploadDir, last>>
    /\ UNCHANGED multipartVars

\* aiofiles.open or f.write raises OSError while the chunk directory is there
\* (a full disk, a permission): open 'wb' has either failed, and the chunk
\* file is as it was, or has created or truncated the chunk file, which is
\* left without the bytes of this call
upload_chunk_write_fails(c) ==
    /\ calls[c].pc = "chunk_write"
    /\ LET upload_id == calls[c].upload_id IN
       /\ tempDir[upload_id].exists
       /\ \E truncated \in BOOLEAN :
            tempDir' = IF truncated
                       THEN [tempDir EXCEPT ![upload_id] =
                                WriteChunkFile(@, calls[c].chunk_number, <<>>)]
                       ELSE tempDir
       /\ raise_server_error(c, upload_id)
    /\ UNCHANGED <<metadata, uploadDir, files>>
    /\ UNCHANGED multipartVars

\* the restarts are explored for the runs with at most this many sessions
MaxCrashSessions == 1

\* init_chunked_upload while fewer than MaxCrashSessions sessions exist
init_chunked_upload_bounded(c, total_chunks, file_hash) ==
    /\ Cardinality(Sessions) < MaxCrashSessions
    /\ init_chunked_upload(c, total_chunks, file_hash)

NextCrash ==
    \/ \E c \in CallIds, file \in OriginalFiles :
            init_chunked_upload_bounded(c, Len(file), calculate_file_sha256(file))
    \/ \E c \in CallIds : init_insert(c)
    \/ \E c \in CallIds, upload_id \in UploadIds, chunk_number \in ChunkNumbers,
          chunk_hash \in ChunkHashes, content \in ChunkContents :
            upload_chunk(c, upload_id, chunk_number, chunk_hash, content)
    \/ \E c \in CallIds : upload_chunk_write(c)
    \/ \E c \in CallIds : upload_chunk_save(c)
    \/ \E c \in CallIds, upload_id \in UploadIds : merge_chunks(c, upload_id)
    \/ \E c \in CallIds : merge_chunks_finish(c)
    \/ \E upload_id \in UploadIds : get_upload_status(upload_id)
    \/ \E upload_id \in UploadIds : pause_upload(upload_id)
    \/ \E upload_id \in UploadIds : resume_upload(upload_id)
    \/ \E c \in CallIds, upload_id \in UploadIds : cancel_upload(c, upload_id)
    \/ \E c \in CallIds : cancel_upload_finish(c)
    \/ restart
    \/ \E c \in CallIds : merge_chunks_crash(c)

SpecCrash == Init /\ [][NextCrash]_vars

\* the requests of at most MaxCrashSessions sessions with a store whose
\* chunk writes can fail
NextStoreFailure ==
    \/ \E c \in CallIds, file \in OriginalFiles :
            init_chunked_upload_bounded(c, Len(file), calculate_file_sha256(file))
    \/ \E c \in CallIds : init_insert(c)
    \/ \E c \in CallIds, upload_id \in UploadIds, chunk_number \in ChunkNumbers,
          chunk_hash \in ChunkHashes, content \in ChunkContents :
            upload_chunk(c, upload_id, chunk_number, chunk_hash, content)
    \/ \E c \in CallIds : upload_chunk_write(c)
    \/ \E c \in CallIds : upload_chunk_write_fails(c)
    \/ \E c \in CallIds : upload_chunk_save(c)
    \/ \E c \in CallIds, upload_id \in UploadIds : merge_chunks(c, upload_id)
    \/ \E c \in CallIds : merge_chunks_finish(c)
    \/ \E upload_id \in UploadIds : get_upload_status(upload_id)
    \/ \E upload_id \in UploadIds : pause_upload(upload_id)
    \/ \E upload_id \in UploadIds : resume_upload(upload_id)
    \/ \E c \in CallIds, upload_id \in UploadIds : cancel_upload(c, upload_id)
    \/ \E c \in CallIds : cancel_upload_finish(c)

SpecStoreFailure == Init /\ [][NextStoreFailure]_vars

\* ------------------------------------------------------------ list_uploads
\* the requests of Next with list_uploads among them
NextReads ==
    \/ \E c \in CallIds, file \in OriginalFiles :
            init_chunked_upload(c, Len(file), calculate_file_sha256(file))
    \/ \E c \in CallIds : init_insert(c)
    \/ \E c \in CallIds, upload_id \in UploadIds, chunk_number \in ChunkNumbers,
          chunk_hash \in ChunkHashes, content \in ChunkContents :
            upload_chunk(c, upload_id, chunk_number, chunk_hash, content)
    \/ \E c \in CallIds : upload_chunk_write(c)
    \/ \E c \in CallIds : upload_chunk_save(c)
    \/ \E c \in CallIds, upload_id \in UploadIds : merge_chunks(c, upload_id)
    \/ \E c \in CallIds : merge_chunks_finish(c)
    \/ \E upload_id \in UploadIds : get_upload_status(upload_id)
    \/ \E upload_id \in UploadIds : pause_upload(upload_id)
    \/ \E upload_id \in UploadIds : resume_upload(upload_id)
    \/ \E c \in CallIds, upload_id \in UploadIds : cancel_upload(c, upload_id)
    \/ \E c \in CallIds : cancel_upload_finish(c)
    \/ \E status \in StatusFilters : list_uploads(status)

SpecReads == Init /\ [][NextReads]_vars

\* ------------------------------------------------------ request validation
\* RequestValid with a fault: the request is not validated
RequestUnchecked(file_size, total_chunks) == TRUE

\* InitChunkedUploadRequest: file_size > 0 and total_chunks >= 1
RequestValid(file_size, total_chunks) == file_size > 0 /\ total_chunks >= 1

\* the request of init_chunked_upload is validated when it is built, before
\* the handler runs: an invalid request is refused and the handler is not
\* called
init_request(c, file_size, total_chunks, file_hash) ==
    IF RequestValid(file_size, total_chunks)
    THEN init_chunked_upload_bounded(c, total_chunks, file_hash)
    ELSE /\ FirstIdle(c)
         /\ Return(c, Response("init", 0, 400, "invalid_request", <<>>))
         /\ UNCHANGED <<metadata, tempDir, uploadDir, files>>
         /\ UNCHANGED multipartVars

\* the requests of at most MaxCrashSessions sessions, with the init requests
\* that declare no bytes or no chunks among them
NextRequests ==
    \/ \E c \in CallIds, file \in OriginalFiles :
        \E file_size \in {0, Len(file)}, total_chunks \in {0, Len(file)} :
            init_request(c, file_size, total_chunks, calculate_file_sha256(file))
    \/ \E c \in CallIds : init_insert(c)
    \/ \E c \in CallIds, upload_id \in UploadIds, chunk_number \in ChunkNumbers,
          chunk_hash \in ChunkHashes, content \in ChunkContents :
            upload_chunk(c, upload_id, chunk_number, chunk_hash, content)
    \/ \E c \in CallIds : upload_chunk_write(c)
    \/ \E c \in CallIds : upload_chunk_save(c)
    \/ \E c \in CallIds, upload_id \in UploadIds : merge_chunks(c, upload_id)
    \/ \E c \in CallIds : merge_chunks_finish(c)
    \/ \E upload_id \in UploadIds : get_upload_status(upload_id)
    \/ \E upload_id \in UploadIds : pause_upload(upload_id)
    \/ \E upload_id \in UploadIds : resume_upload(upload_id)
    \/ \E c \in CallIds, upload_id \in UploadIds : cancel_upload(c, upload_id)
    \/ \E c \in CallIds : cancel_upload_finish(c)

SpecRequests == Init /\ [][NextRequests]_vars

\* ------------------------------------------ file/local.py: multipart upload
\* The endpoints of file/local.py are synchronous and run on worker threads;
\* each `with ctx.db.begin()` block is one database transaction and one step.
\* complete_multipart_upload_file has two transactions, hence two steps, and
\* a worker thread holds its locals between them.
Reply(op, file_id, code, data) ==
    [op |-> op, file_id |-> file_id, code |-> code, data |-> data]

\* ServiceError.param_error(message) and ServiceError.server_error(message)
param_error(op, file_id, message) == Reply(op, file_id, "param_error", <<message>>)
server_error(op, file_id, message) == Reply(op, file_id, "server_error", <<message>>)

\* select ... from File left join MultipartUpload: a row for every File row
row_found_left_join(file_id) == File[file_id] # NoFileRow

\* select ... from File join MultipartUpload where File.id = file_id: a row
\* only while both tables hold one for the file
row_found(file_id) ==
    File[file_id] # NoFileRow /\ MultipartUpload[file_id] # NoUpload

\* the lowest idle worker thread serves the request
FirstIdleThread(t) ==
    /\ threads[t] = IdleThread
    /\ \A s \in ThreadIds : s < t => threads[s] # IdleThread

\* shutil.rmtree of the temp directory of the file
NoPartFiles == [n \in 1..MaxParts |-> NoPart]

\* the part numbers of S in ascending order (order_by part_number asc)
RECURSIVE Ascending(_)
Ascending(S) ==
    IF S = {} THEN <<>>
    ELSE LET n == CHOOSE m \in S : \A k \in S : m <= k
         IN <<n>> \o Ascending(S \ {n})

\* the File row with the next id, the MultipartUpload row and the empty temp
\* directory, in one transaction
init_multipart_upload_file(part_count) ==
    /\ \E file_id \in FileIds :
        /\ File[file_id] = NoFileRow
        /\ \A g \in FileIds : g < file_id => File[g] # NoFileRow
        /\ File' = [File EXCEPT ![file_id] = "uploading"]
        /\ MultipartUpload' = [MultipartUpload EXCEPT ![file_id] = part_count]
        /\ reply' = Reply("init", file_id, "success", <<file_id>>)
    /\ UNCHANGED <<MultipartUploadPart, partFiles, storedFile, threads>>
    /\ UNCHANGED chunkedVars

\* full_size: part.size = part_size.  The part file is written ('wb') before
\* the insert whose IntegrityError refuses a part number already uploaded.
upload_file_part(file_id, part_number, full_size, content) ==
    /\ IF ~row_found(file_id) THEN
            /\ reply' = param_error("upload_file_part", file_id, "file not found")
            /\ UNCHANGED <<MultipartUploadPart, partFiles>>
       ELSE IF File[file_id] # "uploading" THEN
            /\ reply' = param_error("upload_file_part", file_id, "file is not uploading")
            /\ UNCHANGED <<MultipartUploadPart, partFiles>>
       ELSE IF part_number > MultipartUpload[file_id] \/ part_number <= 0 THEN
            /\ reply' = param_error("upload_file_part", file_id, "part number out of range")
            /\ UNCHANGED <<MultipartUploadPart, partFiles>>
       ELSE IF part_number # MultipartUpload[file_id] /\ ~full_size THEN
            /\ reply' = param_error("upload_file_part", file_id, "part size mismatch")
            /\ UNCHANGED <<MultipartUploadPart, partFiles>>
       ELSE /\ partFiles' = [partFiles EXCEPT ![file_id][part_number] = content]
            /\ IF part_number \in MultipartUploadPart[file_id] THEN
                    /\ reply' = param_error("upload_file_part", file_id,
                                            "part already uploaded")
                    /\ UNCHANGED MultipartUploadPart
               ELSE /\ MultipartUploadPart' =
                          [MultipartUploadPart EXCEPT ![file_id] = @ \cup {part_number}]
                    /\ reply' = Reply("upload_file_part", file_id, "success",
                                      <<file_id>>)
    /\ UNCHANGED <<File, MultipartUpload, storedFile, threads>>
    /\ UNCHANGED chunkedVars

\* first transaction of complete_multipart_upload_file: the checks and
\* status := merging, committed before the merge starts
complete_multipart_upload_file(t, file_id) ==
    /\ FirstIdleThread(t)
    /\ IF ~row_found(file_id) THEN
            /\ reply' = param_error("complete", file_id, "file not found")
            /\ UNCHANGED <<File, threads>>
       ELSE IF File[file_id] # "uploading" THEN
            /\ reply' = param_error("complete", file_id, "file is not uploading")
            /\ UNCHANGED <<File, threads>>
       ELSE IF Cardinality(MultipartUploadPart[file_id]) < MultipartUpload[file_id] THEN
            /\ reply' = param_error("complete", file_id, "some parts not uploaded")
            /\ UNCHANGED <<File, threads>>
       ELSE /\ File' = [File EXCEPT ![file_id] = "merging"]
            /\ threads' = [threads EXCEPT ![t] =
                  [pc |-> "merge", file_id |-> file_id,
                   uploaded_parts |-> Ascending(MultipartUploadPart[file_id])]]
            /\ UNCHANGED reply
    /\ UNCHANGED <<MultipartUpload, MultipartUploadPart, partFiles, storedFile>>
    /\ UNCHANGED chunkedVars

\* the number of leading parts of uploaded_parts whose part file exists
RECURSIVE PartsPresent(_, _)
PartsPresent(file_id, uploaded_parts) ==
    IF uploaded_parts = <<>> \/ partFiles[file_id][Head(uploaded_parts)] = NoPart
    THEN 0
    ELSE 1 + PartsPresent(file_id, Tail(uploaded_parts))

\* second transaction of complete_multipart_upload_file: the final file is
\* opened 'wb' and the parts are appended in order.  copied is the number of
\* parts appended before the loop ends: all of them, or fewer when a part file
\* is missing or the copy raises (except Exception).  Then the final status
\* and the deletion of the MultipartUpload and MultipartUploadPart rows.
complete_merge(t) ==
    /\ threads[t].pc = "merge"
    /\ LET file_id == threads[t].file_id
           uploaded_parts == threads[t].uploaded_parts
       IN \E copied \in 0..PartsPresent(file_id, uploaded_parts) :
            LET file_status == IF copied = Len(uploaded_parts) THEN "ok" ELSE "error"
            IN /\ storedFile' = [storedFile EXCEPT ![file_id] =
                      [exists |-> TRUE,
                       content |-> [i \in 1..copied |->
                                      partFiles[file_id][uploaded_parts[i]]]]]
               /\ partFiles' = IF file_status = "ok"
                               THEN [partFiles EXCEPT ![file_id] = NoPartFiles]
                               ELSE partFiles
               /\ File' = [File EXCEPT ![file_id] = file_status]
               /\ MultipartUpload' = [MultipartUpload EXCEPT ![file_id] = NoUpload]
               /\ MultipartUploadPart' = [MultipartUploadPart EXCEPT ![file_id] = {}]
               /\ reply' = IF file_status = "ok"
                           THEN Reply("complete", file_id, "success", <<file_id>>)
                           ELSE server_error("complete", file_id,
                                             "local complete multipart upload error")
    /\ threads' = [threads EXCEPT ![t] = IdleThread]
    /\ UNCHANGED chunkedVars

\* one transaction: the checks, rmtree of the temp directory, status := error
\* and the deletion of the MultipartUpload and MultipartUploadPart rows
abort_multipart_upload_file(file_id) ==
    /\ IF ~row_found(file_id) THEN
            /\ reply' = param_error("abort", file_id, "file not found")
            /\ UNCHANGED <<File, MultipartUpload, MultipartUploadPart, partFiles>>
       ELSE IF File[file_id] # "uploading" THEN
            /\ reply' = param_error("abort", file_id, "file is not uploading")
            /\ UNCHANGED <<File, MultipartUpload, MultipartUploadPart, partFiles>>
       ELSE /\ partFiles' = [partFiles EXCEPT ![file_id] = NoPartFiles]
            /\ File' = [File EXCEPT ![file_id] = "error"]
            /\ MultipartUpload' = [MultipartUpload EXCEPT ![file_id] = NoUpload]
            /\ MultipartUploadPart' = [MultipartUploadPart EXCEPT ![file_id] = {}]
            /\ reply' = Reply("abort", file_id, "success", <<file_id>>)
    /\ UNCHANGED <<storedFile, threads>>
    /\ UNCHANGED chunkedVars

\* uploaded_parts and remaining_parts are computed only while uploading
get_multipart_upload_file_status(file_id) ==
    /\ IF ~row_found(file_id) THEN
            reply' = param_error("get_status", file_id, "file not found")
       ELSE LET status == File[file_id]
                uploaded_parts == IF status = "uploading"
                                  THEN MultipartUploadPart[file_id] ELSE {}
                remaining_parts == IF status = "uploading"
                                   THEN (1..MultipartUpload[file_id]) \ uploaded_parts
                                   ELSE {}
            IN reply' = Reply("get_status", file_id,
                              IF status = "error" THEN "server_error" ELSE "success",
                              <<status, uploaded_parts, remaining_parts>>)
    /\ UNCHANGED <<File, MultipartUpload, MultipartUploadPart, partFiles,
                   storedFile, threads>>
    /\ UNCHANGED chunkedVars

\* the server process dies while a worker thread is between the two
\* transactions of complete_multipart_upload_file and is started again: the
\* thread and its locals are gone, the committed rows and the files stay.
\* No code of local.py runs at start-up.
process_restart ==
    /\ \E t \in ThreadIds : threads[t] # IdleThread
    /\ threads' = [t \in ThreadIds |-> IdleThread]
    /\ UNCHANGED <<File, MultipartUpload, MultipartUploadPart, partFiles,
                   storedFile, reply>>
    /\ UNCHANGED chunkedVars

NextMultipart ==
    \/ \E part_count \in PartCounts : init_multipart_upload_file(part_count)
    \/ \E file_id \in FileIds, part_number \in PartNumbers,
          full_size \in BOOLEAN, content \in Bytes :
            upload_file_part(file_id, part_number, full_size, content)
    \/ \E t \in ThreadIds, file_id \in FileIds :
            complete_multipart_upload_file(t, file_id)
    \/ \E t \in ThreadIds : complete_merge(t)
    \/ \E file_id \in FileIds : abort_multipart_upload_file(file_id)
    \/ \E file_id \in FileIds : get_multipart_upload_file_status(file_id)
    \/ process_restart

SpecMultipart == Init /\ [][NextMultipart]_vars

\* a worker thread that has committed the first transaction goes on to the
\* second one unless the process dies; nothing obliges clients to send
\* requests or the process to die
SpecMultipartFair ==
    SpecMultipart /\ \A t \in ThreadIds : WF_vars(complete_merge(t))

\* ================================================================ claims
\* the set {0 .. total_chunks-1} minus uploaded_chunks of a session
Remaining(md) == (0..(md.total_chunks - 1)) \ ToSet(md.uploaded_chunks)

\* the chunk files 0 .. total_chunks-1 of a directory laid end to end (every
\* chunk is one byte long)
InIndexOrder(dir, total_chunks) == [i \in 1..total_chunks |-> dir.chunks[i - 1][1]]

\* C1: merge_chunks on a session in status uploading with every chunk uploaded
\* and a matching digest, with no other request in flight, returns success
\* with the file's id, sets status completed, marks the row state 1 with the
\* final path and deletes the chunk directory.
C1_MergeCompletes ==
    [][\A c \in CallIds :
        (/\ calls[c].pc = "merge_find"
         /\ InFlight = {c}
         /\ metadata[calls[c].upload_id] = calls[c].md
         /\ calls[c].md.status = "uploading"
         /\ tempDir[calls[c].upload_id].exists
         /\ merge_chunks_finish(c))
        => LET u == calls[c].upload_id IN
           /\ last' = Response("merge_chunks", u, 200, "success", <<files[u].id>>)
           /\ metadata'[u].status = "completed"
           /\ files'[u].state = 1
           /\ files'[u].storage_path = "final"
           /\ ~tempDir'[u].exists]_vars

\* C2: the final file merge_chunks writes is the stored chunks in ascending
\* index order, whatever the order upload_chunk accepted them in, and when
\* the merge goes on it is the file whose digest init declared.
C2_MergeInIndexOrder ==
    [][\A c \in CallIds, u \in UploadIds :
        (/\ calls[c] = Idle
         /\ calls'[c].pc = "merge_find"
         /\ merge_chunks(c, u))
        => /\ uploadDir'[u].exists
           /\ uploadDir'[u].content = InIndexOrder(tempDir[u], metadata[u].total_chunks)
           /\ uploadDir'[u].content \in OriginalFiles
           /\ sha256(uploadDir'[u].content) = metadata[u].file_hash]_vars

\* C2 witness: a merge of two chunks with different bytes has written the file
C2_Witness ==
    \E c \in CallIds :
        /\ calls[c].pc = "merge_find"
        /\ uploadDir[calls[c].upload_id].exists
        /\ uploadDir[calls[c].upload_id].content = <<1, 2>>

\* C3: an upload_chunk that directly follows a successful upload_chunk of the
\* same session and chunk number returns exists, writes nothing, and the
\* number is in uploaded_chunks exactly once.
C3_ResendReturnsExists ==
    [][(/\ InFlight = {}
        /\ last.op = "upload_chunk"
        /\ last.kind = "success")
       => \A c \in CallIds, h \in ChunkHashes, content \in ChunkContents :
            LET u == last.upload_id
                n == last.data[1]
            IN  upload_chunk(c, u, n, h, content)
                => /\ last' = Response("upload_chunk", u, 200, "exists", <<n>>)
                   /\ UNCHANGED <<metadata, tempDir, uploadDir, files, calls>>
                   /\ Cardinality({i \in 1..Len(metadata[u].uploaded_chunks) :
                                        metadata[u].uploaded_chunks[i] = n}) = 1]_vars

\* C3 witness: a resend was answered exists
C3_Witness ==
    /\ last.op = "upload_chunk"
    /\ last.kind = "exists"
    /\ InFlight = {}
    /\ Contains(metadata[last.upload_id].uploaded_chunks, last.data[1])

\* C4: an upload_chunk whose bytes do not hash to the declared chunk_hash
\* (index in range and not yet uploaded) is rejected, writes no chunk file
\* and leaves uploaded_chunks unchanged.
C4_ChunkDigestGate ==
    [][\A c \in CallIds, u \in UploadIds :
        (/\ calls[c] = Idle
         /\ metadata[u].exists
         /\ metadata[u].status \in {"uploading", "paused"})
        => \* the step is the rejection, or it neither answers an upload_chunk
           \* on u nor takes up a request, or it is no such upload_chunk
           \/ /\ last' = Response("upload_chunk", u, 400, "hash_mismatch", <<>>)
              /\ UNCHANGED <<metadata, tempDir, uploadDir, files, calls>>
           \/ ~(last'.op = "upload_chunk" /\ last'.upload_id = u) /\ calls'[c] = Idle
           \/ \A n \in Remaining(metadata[u]), h \in ChunkHashes,
                 content \in ChunkContents :
                sha256(content) # h => ~upload_chunk(c, u, n, h, content)]_vars

\* C4 witness: a chunk was rejected for its digest
C4_Witness ==
    /\ last.op = "upload_chunk"
    /\ last.kind = "hash_mismatch"
    /\ metadata[last.upload_id].status \in {"uploading", "paused"}

\* C5: merge_chunks on a session with a chunk missing fails reporting exactly
\* {0 .. total_chunks-1} minus uploaded_chunks and changes nothing.
C5_CompletenessGate ==
    [][\A c \in CallIds, u \in UploadIds :
        (/\ calls[c] = Idle
         /\ metadata[u].exists
         /\ Remaining(metadata[u]) # {}
         /\ merge_chunks(c, u))
        => /\ last'.op = "merge_chunks"
           /\ last'.upload_id = u
           /\ last'.code = 400
           /\ last'.kind = "missing_chunks"
           /\ ToSet(last'.data) = Remaining(metadata[u])
           /\ Len(last'.data) = Cardinality(Remaining(metadata[u]))
           /\ UNCHANGED <<metadata, tempDir, uploadDir, files, calls>>]_vars

\* C5 witness: a merge was refused while one chunk of two was uploaded
C5_Witness ==
    /\ last.op = "merge_chunks"
    /\ last.kind = "missing_chunks"
    /\ Len(last.data) = 1
    /\ Len(metadata[last.upload_id].uploaded_chunks) = 1

\* C6: once an upload with file_hash h is completed, a later
\* init_chunked_upload with the same h returns instant with the existing
\* file's id and creates no upload id, metadata file, chunk directory or row.
C6_InstantAfterCompleted ==
    [][\A c \in CallIds, f \in OriginalFiles :
        (/\ \E u \in UploadIds :
                /\ metadata[u].exists
                /\ metadata[u].status = "completed"
                /\ metadata[u].file_hash = sha256(f)
         /\ init_chunked_upload(c, Len(f), sha256(f)))
        => /\ last'.op = "init"
           /\ last'.kind = "instant"
           /\ \E u \in UploadIds :
                /\ metadata[u].status = "completed"
                /\ metadata[u].file_hash = sha256(f)
                /\ last'.data = <<files[u].id>>
           /\ UNCHANGED <<metadata, tempDir, uploadDir, files, calls>>]_vars

\* C7: when an upload_chunk for index j returns success right after an
\* overlapping upload_chunk of the same session returned success for another
\* index i, the persisted uploaded_chunks holds both i and j.
C7_NoLostChunk ==
    [][\A c \in CallIds :
        (/\ calls[c].pc = "chunk_save"
         /\ last.op = "upload_chunk"
         /\ last.kind = "success"
         /\ last.upload_id = calls[c].upload_id
         /\ last.data # <<calls[c].chunk_number>>
         /\ upload_chunk_save(c))
        => LET u == calls[c].upload_id IN
           /\ Contains(metadata'[u].uploaded_chunks, last.data[1])
           /\ Contains(metadata'[u].uploaded_chunks, calls[c].chunk_number)]_vars

\* C8: a status of completed, cancelled or failed is not changed by any request
\* (already with the requests served one after the other).
C8_TerminalStatus ==
    [][\A u \in UploadIds :
        (/\ InFlight = {}
         /\ metadata[u].exists
         /\ metadata[u].status \in {"completed", "cancelled", "failed"})
        => metadata'[u].status = metadata[u].status]_vars

\* C9: merge_chunks on a session whose status is not uploading or paused
\* fails with an invalid-state error and changes no metadata and no file.
C9_MergeNeedsLiveSession ==
    [][\A c \in CallIds, u \in UploadIds :
        (/\ metadata[u].exists
         /\ metadata[u].status \notin {"uploading", "paused"}
         /\ merge_chunks(c, u))
        => /\ last'.op = "merge_chunks"
           /\ last'.kind = "invalid_state"
           /\ UNCHANGED <<metadata, tempDir, uploadDir, files, calls>>]_vars

\* C10: when every chunk is present and the merged file does not hash to the
\* declared file_hash, merge_chunks deletes the final file, sets status
\* failed and returns an integrity error.
C10_MergeDigestFailure ==
    [][\A c \in CallIds, u \in UploadIds :
        (/\ metadata[u].exists
         /\ metadata[u].status \in {"uploading", "paused"}
         /\ Remaining(metadata[u]) = {}
         /\ AllChunkFilesExist(tempDir[u], metadata[u].total_chunks)
         /\ sha256(InIndexOrder(tempDir[u], metadata[u].total_chunks))
                # metadata[u].file_hash
         /\ merge_chunks(c, u))
        => /\ last'.op = "merge_chunks"
           /\ last'.kind = "integrity_error"
           /\ ~uploadDir'[u].exists
           /\ metadata'[u].status = "failed"]_vars

\* no upload_chunk of session u has written its chunk file and not yet saved
\* the metadata it loaded
NoPendingSave(u) ==
    \A c \in CallIds : calls[c].pc = "chunk_save" => calls[c].upload_id # u

\* session u is cancelled, its chunk directory is gone and no upload_chunk that
\* began before the cancel is still to save
CancelledAndClean(u) ==
    /\ metadata[u].exists
    /\ metadata[u].status = "cancelled"
    /\ ~tempDir[u].exists
    /\ NoPendingSave(u)

C12_CancelDuringUpload ==
    [][\A c \in CallIds :
        (/\ calls[c].pc = "chunk_save"
         /\ InFlight = {c}
         /\ metadata[calls[c].upload_id].status = "cancelled"
         /\ calls[c].md.status \in {"uploading", "paused"}
         /\ upload_chunk_save(c))
        => LET u == calls[c].upload_id IN
           /\ metadata'[u].status = "cancelled"
           /\ metadata'[u].uploaded_chunks = metadata[u].uploaded_chunks
           /\ ~tempDir'[u].exists]_vars

\* C13: the save of the metadata an upload_chunk or merge_chunks loaded
\* before a pause_upload, resume_upload or cancel_upload changed the status
\* does not undo that change: upload_chunk leaves the status as it is, and
\* merge_chunks leaves it or, from uploading or paused, makes it completed.
C13_StatusNotOverwritten ==
    [][\A c \in CallIds :
        /\ (calls[c].pc = "chunk_save" /\ upload_chunk_save(c))
            => metadata'[calls[c].upload_id].status
                    = metadata[calls[c].upload_id].status
        /\ (calls[c].pc = "merge_find" /\ merge_chunks_finish(c))
            => \/ metadata'[calls[c].upload_id].status
                    = metadata[calls[c].upload_id].status
               \/ /\ metadata[calls[c].upload_id].status \in {"uploading", "paused"}
                  /\ metadata'[calls[c].upload_id].status = "completed"]_vars

\* C14: a resume_upload that follows a successful pause_upload of the same
\* session with no request answered in between (the status is still paused; a
\* restart of the process may lie between the two) returns missing_chunks
\* equal to {0 .. total_chunks-1} minus the uploaded_chunks pause_upload
\* returned, leaves uploaded_chunks unchanged and sets the status uploading.
C14_PauseResumeRoundTrip ==
    [][\A u \in UploadIds :
        (/\ last.op = "pause_upload"
         /\ last.kind = "success"
         /\ last.upload_id = u
         /\ metadata[u].status = "paused"
         /\ resume_upload(u))
        => /\ last'.op = "resume_upload"
           /\ last'.kind = "success"
           /\ ToSet(last'.data) = (0..(metadata[u].total_chunks - 1)) \ ToSet(last.data)
           /\ Len(last'.data) = metadata[u].total_chunks - Len(last.data)
           /\ metadata'[u].uploaded_chunks = last.data
           /\ metadata'[u].uploaded_chunks = metadata[u].uploaded_chunks
           /\ metadata'[u].status = "uploading"]_vars

\* C14 witness: resume_upload reported one chunk of two missing on a session
\* whose init_chunked_upload was cut short by a restart (it has no row)
C14_Witness ==
    /\ last.op = "resume_upload"
    /\ last.kind = "success"
    /\ Len(last.data) = 1
    /\ Len(metadata[last.upload_id].uploaded_chunks) = 1
    /\ metadata[last.upload_id].status = "uploading"
    /\ ~files[last.upload_id].exists
    /\ InFlight = {}

\* uploaded_chunks of session u holds only numbers of 0 .. total_chunks-1 and
\* none of them twice
UploadedChunksIsSet(u) ==
    metadata[u].exists =>
        LET list == metadata[u].uploaded_chunks IN
        /\ \A i \in 1..Len(list) : list[i] \in 0..(metadata[u].total_chunks - 1)
        /\ \A i, j \in 1..Len(list) : i # j => list[i] # list[j]

\* C15: in every reachable state the persisted uploaded_chunks of each session
\* holds only indices of 0 .. total_chunks-1 and no index twice, over every
\* interleaving of upload_chunk calls (two calls for one index included); an
\* upload_chunk with a negative index or an index >= total_chunks is rejected
\* (as an invalid chunk number while the session accepts chunks) and changes
\* nothing: a step is such a rejection or it is no upload_chunk with an index
\* out of range.
C15_UploadedChunksInRange ==
    /\ \A u \in UploadIds : UploadedChunksIsSet(u)
    /\ [][/\ \A u \in UploadIds : UploadedChunksIsSet(u)'
          /\ \A c \in CallIds :
            \* a step in which the first idle slot took up a request or a
            \* response to upload_chunk was returned
            (/\ FirstIdle(c)
             /\ last'.op = "upload_chunk" \/ calls'[c] # Idle)
            => LET u == IF calls'[c] # Idle THEN calls'[c].upload_id
                                            ELSE last'.upload_id
                   Rejected ==
                        /\ last'.op = "upload_chunk"
                        /\ last'.code = 400
                        /\ last'.kind =
                                IF metadata[u].status \in {"uploading", "paused"}
                                THEN "invalid_chunk" ELSE "invalid_state"
                        /\ UNCHANGED <<metadata, tempDir, uploadDir, files, calls>>
               IN
               metadata[u].exists
               => \/ Rejected
                  \/ \A n \in ChunkNumbers :
                        (n < 0 \/ n >= metadata[u].total_chunks)
                        => \A h \in ChunkHashes, content \in ChunkContents :
                            ~upload_chunk(c, u, n, h, content)]_vars

\* C15 witness: an upload_chunk is about to save an index that an overlapping
\* upload_chunk for the same index has recorded meanwhile
C15_Witness ==
    \E c \in CallIds :
        /\ calls[c].pc = "chunk_save"
        /\ ~Contains(calls[c].md.uploaded_chunks, calls[c].chunk_number)
        /\ Contains(metadata[calls[c].upload_id].uploaded_chunks, calls[c].chunk_number)

\* C16: in every reachable state a session with status completed has
\* uploaded_chunks equal to the full set {0 .. total_chunks-1}; no step makes
\* the status completed while an index is missing from the list it saves.
C16_CompletedIsComplete ==
    \A u \in UploadIds :
        (metadata[u].exists /\ metadata[u].status = "completed")
        => /\ Remaining(metadata[u]) = {}
           /\ Len(metadata[u].uploaded_chunks) = metadata[u].total_chunks

\* C16 witness: a session of two chunks is completed
C16_Witness ==
    \E u \in UploadIds :
        /\ metadata[u].exists
        /\ metadata[u].status = "completed"
        /\ metadata[u].total_chunks = 2

\* every index in the persisted uploaded_chunks of a session in status
\* uploading or paused has its chunk file in the session's chunk directory
MembershipHasChunkFile ==
    \A u \in UploadIds :
        (metadata[u].exists /\ metadata[u].status \in {"uploading", "paused"})
        => \A n \in ToSet(metadata[u].uploaded_chunks) : ChunkFileExists(tempDir[u], n)

\* C17: a process that stops while handlers are suspended at their awaits, or
\* inside merge_chunks, leaves every index recorded in the uploaded_chunks of
\* a session in status uploading or paused with its chunk file, if every
\* recorded index had its chunk file before: a stop never leaves membership
\* without a chunk file.
C17_StopKeepsChunkFiles ==
    [][(/\ MembershipHasChunkFile
        /\ restart \/ \E c \in CallIds : merge_chunks_crash(c))
       => MembershipHasChunkFile']_vars

\* C18: an upload_chunk for an index that is recorded in uploaded_chunks and
\* has its chunk file, carrying other bytes than the stored ones (with their
\* correct digest), is rejected as a conflict and leaves the stored bytes as
\* they are.
C18_WriteOnce ==
    [][\A c \in CallIds, u \in UploadIds :
        (/\ calls[c] = Idle
         /\ metadata[u].exists
         /\ metadata[u].status \in {"uploading", "paused"}
         /\ tempDir[u].exists)
        => \A n \in ToSet(metadata[u].uploaded_chunks) \cap DOMAIN tempDir[u].chunks,
              content \in ChunkContents :
            (/\ tempDir[u].chunks[n] # content
             /\ upload_chunk(c, u, n, calculate_chunk_sha256(content), content))
            => /\ last'.op = "upload_chunk"
               /\ last'.code \in {400, 409}
               /\ last'.kind = "conflict"
               /\ tempDir' = tempDir
               /\ calls'[c] = Idle]_vars

\* C19: upload_chunk, merge_chunks, get_upload_status, pause_upload,
\* resume_upload and cancel_upload on an upload id that has no session (no
\* metadata file was ever written for it) each fail with 404 not found and
\* change no metadata file, chunk directory, final file or row: a step that
\* names the id is such a failure or it is none of the six operations.
C19_UnknownUploadId ==
    [][\A u \in UploadIds :
        (/\ ~metadata[u].exists
         \* the step returned a response or began a request that names u
         /\ \/ last'.op # "none" /\ last'.upload_id = u
            \/ \E c \in CallIds : /\ calls[c] = Idle
                                   /\ calls'[c] # Idle
                                   /\ calls'[c].upload_id = u)
        => LET NotFound(op) ==
                    /\ last' = Response(op, u, 404, "not_found", <<>>)
                    /\ UNCHANGED <<metadata, tempDir, uploadDir, files, calls>>
           IN
           /\ \/ NotFound("upload_chunk")
              \/ \A c \in CallIds, n \in ChunkNumbers, h \in ChunkHashes,
                    content \in ChunkContents : ~upload_chunk(c, u, n, h, content)
           /\ \/ NotFound("merge_chunks")
              \/ \A c \in CallIds : ~merge_chunks(c, u)
           /\ NotFound("get_upload_status") \/ ~get_upload_status(u)
           /\ NotFound("pause_upload") \/ ~pause_upload(u)
           /\ NotFound("resume_upload") \/ ~resume_upload(u)
           /\ \/ NotFound("cancel_upload")
              \/ \A c \in CallIds : ~cancel_upload(c, u)]_vars

\* C19 witness: cancel_upload on an id without a session was answered 404
\* while another session exists, and nothing was created for the id
C19_Witness ==
    /\ last.op = "cancel_upload"
    /\ last.code = 404
    /\ ~metadata[last.upload_id].exists
    /\ ~tempDir[last.upload_id].exists
    /\ ~uploadDir[last.upload_id].exists
    /\ ~files[last.upload_id].exists
    /\ \E v \in UploadIds : metadata[v].exists /\ Len(metadata[v].uploaded_chunks) > 0

\* C20: upload_chunk is accepted exactly in status uploading or paused.  In
\* status completed or cancelled it fails with 400 invalid state and changes
\* nothing.  In status paused a new chunk in range with a matching digest goes
\* on to the chunk write, and when its save ends the call (no other request
\* in flight, the metadata as the call loaded it) the chunk file holds the
\* bytes, the index is in uploaded_chunks and the status is still paused.
\* (Each part reads: the step has the stated outcome or it is no such
\* upload_chunk.)
C20_ChunksWhileLive ==
    [][/\ \A c \in CallIds :
            \* a step in which the first idle slot took up a request or a
            \* response to upload_chunk was returned
            (/\ FirstIdle(c)
             /\ last'.op = "upload_chunk" \/ calls'[c] # Idle)
            => LET u == IF calls'[c] # Idle THEN calls'[c].upload_id
                                            ELSE last'.upload_id
                   Rejected ==
                        /\ last' = Response("upload_chunk", u, 400, "invalid_state", <<>>)
                        /\ UNCHANGED <<metadata, tempDir, uploadDir, files, calls>>
                   NoUploadChunk ==
                        \A n \in ChunkNumbers, h \in ChunkHashes,
                           content \in ChunkContents : ~upload_chunk(c, u, n, h, content)
               IN
               metadata[u].exists
               => /\ metadata[u].status \in {"completed", "cancelled"}
                        => Rejected \/ NoUploadChunk
                  /\ metadata[u].status \in {"uploading", "paused"}
                        => \/ calls'[c] # Idle
                           \/ last'.kind # "invalid_state"
                           \/ NoUploadChunk
                  /\ metadata[u].status = "paused"
                        => \A n \in Remaining(metadata[u]), content \in ChunkContents :
                            \/ /\ calls'[c].pc = "chunk_write"
                               /\ calls'[c].chunk_number = n
                               /\ calls'[c].content = content
                            \/ ~upload_chunk(c, u, n, calculate_chunk_sha256(content),
                                             content)
       /\ \A c \in CallIds :
            (/\ calls[c].pc = "chunk_save"
             /\ InFlight = {c}
             /\ calls[c].md.status = "paused"
             /\ metadata[calls[c].upload_id] = calls[c].md
             /\ upload_chunk_save(c))
            => LET u == calls[c].upload_id
                   n == calls[c].chunk_number
               IN
               /\ last' = Response("upload_chunk", u, 200, "success", <<n>>)
               /\ ChunkFileExists(tempDir'[u], n)
               /\ tempDir'[u].chunks[n] = calls[c].content
               /\ Contains(metadata'[u].uploaded_chunks, n)
               /\ metadata'[u].status = "paused"]_vars

\* C20 witness: a chunk uploaded while the session was paused is stored and
\* recorded, and the session is still paused
C20_Witness ==
    /\ last.op = "upload_chunk"
    /\ last.kind = "success"
    /\ InFlight = {}
    /\ metadata[last.upload_id].status = "paused"
    /\ Contains(metadata[last.upload_id].uploaded_chunks, last.data[1])
    /\ ChunkFileExists(tempDir[last.upload_id], last.data[1])

\* C21: pause_upload succeeds only on a session whose status is uploading: it
\* then sets the status to paused, changes nothing else and answers with the
\* uploaded_chunks of the session. On a paused, completed or cancelled
\* session it answers with an invalid-state error and leaves the session, the
\* directories and the table as they were.
C21_PauseOnlyWhileUploading ==
    [][\A u \in UploadIds :
            (metadata[u].exists /\ pause_upload(u))
            => IF metadata[u].status = "uploading"
               THEN /\ last' = Response("pause_upload", u, 200, "success",
                                        metadata[u].uploaded_chunks)
                    /\ metadata' = [metadata EXCEPT ![u].status = "paused"]
                    /\ UNCHANGED <<tempDir, uploadDir, files, calls>>
               ELSE /\ metadata[u].status \in {"paused", "completed", "cancelled"}
                    /\ last' = Response("pause_upload", u, 400, "invalid_state", <<>>)
                    /\ UNCHANGED <<metadata, tempDir, uploadDir, files, calls>>]_vars

\* C21 witness: a session with an uploaded chunk was paused and the response
\* carries its uploaded_chunks
C21_Witness ==
    /\ last.op = "pause_upload"
    /\ last.kind = "success"
    /\ metadata[last.upload_id].status = "paused"
    /\ last.data # <<>>
    /\ last.data = metadata[last.upload_id].uploaded_chunks

\* C22: resume_upload succeeds only on a session whose status is paused: it
\* then sets the status to uploading, changes nothing else and answers with the
\* chunk numbers of 0 .. total_chunks-1 that are not in uploaded_chunks. On an
\* uploading, completed or cancelled session it answers with an invalid-state
\* error and leaves the session, the directories and the table as they were.
C22_ResumeOnlyWhilePaused ==
    [][\A u \in UploadIds :
            (metadata[u].exists /\ resume_upload(u))
            => IF metadata[u].status = "paused"
               THEN /\ last'.op = "resume_upload"
                    /\ last'.upload_id = u
                    /\ last'.kind = "success"
                    /\ ToSet(last'.data) = Remaining(metadata[u])
                    /\ Len(last'.data) = Cardinality(Remaining(metadata[u]))
                    /\ metadata' = [metadata EXCEPT ![u].status = "uploading"]
                    /\ UNCHANGED <<tempDir, uploadDir, files, calls>>
               ELSE /\ metadata[u].status \in {"uploading", "completed", "cancelled"}
                    /\ last' = Response("resume_upload", u, 400, "invalid_state", <<>>)
                    /\ UNCHANGED <<metadata, tempDir, uploadDir, files, calls>>]_vars

\* C22 witness: a paused session with one chunk uploaded and one missing was
\* resumed
C22_Witness ==
    /\ last.op = "resume_upload"
    /\ last.kind = "success"
    /\ metadata[last.upload_id].status = "uploading"
    /\ metadata[last.upload_id].uploaded_chunks # <<>>
    /\ last.data # <<>>

\* C23: cancel_upload succeeds on a session in status uploading, paused or
\* cancelled, whether or not the chunk directory or some chunk files are
\* still there: it leaves status cancelled, no chunk directory and the other
\* fields as they were, and its second step answers with success and changes
\* nothing more. On a session that is already cancelled with its directory
\* gone, the first step leaves the session and the directories exactly as one
\* cancel_upload left them.
C23_CancelIdempotent ==
    [][\A c \in CallIds :
        /\ \A u \in UploadIds :
            (/\ calls[c] = Idle
             /\ metadata[u].exists
             /\ metadata[u].status \in {"uploading", "paused", "cancelled"}
             /\ cancel_upload(c, u))
            => /\ calls'[c] = [pc |-> "cancel_find", upload_id |-> u]
               /\ metadata' = [metadata EXCEPT ![u].status = "cancelled"]
               /\ ~tempDir'[u].exists
               /\ \A v \in UploadIds \ {u} : tempDir'[v] = tempDir[v]
               /\ UNCHANGED <<uploadDir, last>>
               /\ (metadata[u].status = "cancelled" /\ ~tempDir[u].exists)
                    => UNCHANGED <<metadata, tempDir, uploadDir, files>>
        /\ (calls[c].pc = "cancel_find" /\ cancel_upload_finish(c))
            => /\ last' = Response("cancel_upload", calls[c].upload_id, 200,
                                   "success", <<>>)
               /\ calls'[c] = Idle
               /\ UNCHANGED <<metadata, tempDir, uploadDir>>]_vars

\* C23 witness: cancel_upload has returned success for a session, and a
\* second cancel_upload of the same session, begun when the session was
\* cancelled and its directory gone, is about to answer
C23_Witness ==
    /\ last.op = "cancel_upload"
    /\ last.kind = "success"
    /\ \E c \in CallIds :
            /\ InFlight = {c}
            /\ calls[c] = [pc |-> "cancel_find", upload_id |-> last.upload_id]
    /\ metadata[last.upload_id].status = "cancelled"
    /\ ~tempDir[last.upload_id].exists

\* upload_chunk with the bytes content and their digest would pass every
\* check of session u for chunk n and go on to write the chunk file
RetryAccepted(u, n, content) ==
    \E d \in CallIds :
        ENABLED (/\ upload_chunk(d, u, n, calculate_chunk_sha256(content), content)
                 /\ calls'[d].pc = "chunk_write")

\* C24: when the write of the chunk file fails inside upload_chunk (the
\* directory is gone, or open or write raises), the call answers with a
\* server error and the step leaves every metadata file as it was; when no
\* other request changed the session since the call loaded it, the session
\* is what it was before the call, and an upload_chunk with the same chunk
\* is accepted again.
C24_FailedWriteLeavesSession ==
    [][\A c \in CallIds :
        (/\ calls[c].pc = "chunk_write"
         /\ \/ ~tempDir[calls[c].upload_id].exists /\ upload_chunk_write(c)
            \/ upload_chunk_write_fails(c))
        => \A u \in {calls[c].upload_id}, n \in {calls[c].chunk_number},
              content \in {calls[c].content} :
           /\ last' = Response("upload_chunk", u, 500, "server_error", <<>>)
           /\ metadata' = metadata
           /\ UNCHANGED <<uploadDir, files>>
           /\ metadata[u] = calls[c].md
                => /\ metadata'[u].status = calls[c].md.status
                   /\ metadata'[u].uploaded_chunks = calls[c].md.uploaded_chunks
                   /\ RetryAccepted(u, n, content)']_vars

\* C24 witness: the write of a chunk failed with the chunk directory in
\* place, the session is live and does not list a chunk, and a chunk file
\* without bytes was left behind
C24_Witness ==
    /\ last.op = "upload_chunk"
    /\ last.kind = "server_error"
    /\ InFlight = {}
    /\ metadata[last.upload_id].status \in {"uploading", "paused"}
    /\ tempDir[last.upload_id].exists
    /\ \E n \in DOMAIN tempDir[last.upload_id].chunks :
            /\ tempDir[last.upload_id].chunks[n] = <<>>
            /\ ~Contains(metadata[last.upload_id].uploaded_chunks, n)

\* the row of upload u is one the dedup lookup returns for its file_hash
DedupCanReturn(u) == files[u].exists /\ u \in find_by_hash(files[u].file_hash)

\* the merged file of upload u is at the final path and its SHA-256 is the
\* file_hash declared for the upload
MergedFileVerified(u) ==
    /\ uploadDir[u].exists
    /\ metadata[u].exists
    /\ calculate_file_sha256(uploadDir[u].content) = metadata[u].file_hash
    /\ files[u].file_hash = metadata[u].file_hash

\* C25: every row the dedup lookup can return belongs to an upload whose
\* merged file has the declared SHA-256; and an init_chunked_upload for a hash
\* none of whose uploads is completed (they are in flight, cancelled, or
\* failed the verification) does not return instant: it creates a session.
C25_DedupOnlyVerified ==
    [][/\ \A u \in UploadIds :
            /\ DedupCanReturn(u) => MergedFileVerified(u)
            /\ files'[u] # files[u] => (DedupCanReturn(u)' => MergedFileVerified(u)')
       /\ \A c \in CallIds, f \in OriginalFiles :
            (/\ FirstIdle(c)
             /\ calls'[c] # Idle \/ last'.op = "init"
             /\ \A u \in UploadIds :
                    (metadata[u].exists /\ metadata[u].file_hash = calculate_file_sha256(f))
                    => metadata[u].status # "completed"
             /\ init_chunked_upload(c, Len(f), calculate_file_sha256(f)))
            => /\ calls'[c].pc = "init_insert"
               /\ ~(last'.op = "init" /\ last'.kind = "instant" /\ last' # last)]_vars

\* C25 witness: a second session was created for the file_hash of a session
\* that is cancelled and has its row in the table
C25_Witness ==
    /\ last.op = "init"
    /\ last.kind = "success"
    /\ \E u \in UploadIds \ {last.upload_id} :
            /\ metadata[u].exists
            /\ metadata[u].status = "cancelled"
            /\ files[u].exists
            /\ metadata[u].file_hash = metadata[last.upload_id].file_hash

C28_DeclaredFieldsFixed ==
    [][/\ \A u \in UploadIds :
            metadata[u].exists
            => /\ metadata'[u].exists
               /\ metadata'[u].upload_id = metadata[u].upload_id
               /\ metadata'[u].file_hash = metadata[u].file_hash
               /\ metadata'[u].total_chunks = metadata[u].total_chunks
       /\ \A c \in CallIds :
            (calls[c] = Idle /\ calls'[c].pc = "init_insert")
            => \E f \in OriginalFiles :
                /\ init_chunked_upload(c, Len(f), calculate_file_sha256(f))
                /\ ~metadata[calls'[c].upload_id].exists
                /\ metadata'[calls'[c].upload_id].upload_id = calls'[c].upload_id
                /\ metadata'[calls'[c].upload_id].file_hash = calculate_file_sha256(f)
                /\ metadata'[calls'[c].upload_id].total_chunks = Len(f)]_vars

\* C28 witness: a session whose chunks were uploaded, which was merged and
\* then cancelled, with the upload_id and total_chunks of its init
C28_Witness ==
    \E u \in UploadIds :
        /\ metadata[u].exists
        /\ metadata[u].status = "cancelled"
        /\ uploadDir[u].exists
        /\ metadata[u].upload_id = u
        /\ metadata[u].total_chunks = MaxChunks
        /\ Len(metadata[u].uploaded_chunks) = MaxChunks
        /\ metadata[u].file_hash = calculate_file_sha256(uploadDir[u].content)

\* C29: while one merge_chunks of a session is between its load of the
\* metadata and its save of status completed, no second merge_chunks of the
\* same session passes the completeness check and writes the final file.
C29_OneMergeAtATime ==
    [][\A c \in CallIds, d \in CallIds :
        (/\ c # d
         /\ calls[d].pc = "merge_find"
         /\ calls[c] = Idle
         /\ calls'[c].pc = "merge_find")
        => calls'[c].upload_id # calls[d].upload_id]_vars

\* C30: in every reachable state a file at the final path of a session has
\* content whose SHA-256 is the file_hash declared for the session.
C30_FinalFileVerified ==
    \A u \in UploadIds :
        uploadDir[u].exists
        => /\ metadata[u].exists
           /\ calculate_file_sha256(uploadDir[u].content) = metadata[u].file_hash

\* the response r of get_upload_status carries the set of chunk numbers of
\* 0 .. total_chunks-1 that are not in uploaded_chunks of md
ReportsRemaining(r, md) == Len(r.data) > 3 /\ ToSet(r.data[4]) = Remaining(md)

\* C31: get_upload_status and list_uploads change no metadata, chunk file,
\* final file or row; get_upload_status reports the status, total_chunks and
\* uploaded_chunks of the session and, for a session in status uploading, the
\* remaining chunk numbers; list_uploads with a status filter returns exactly
\* the sessions whose status equals the filter.
C31_ReadsArePure ==
    [][/\ \A u \in UploadIds :
            (metadata[u].exists /\ get_upload_status(u))
            => /\ UNCHANGED <<metadata, tempDir, uploadDir, files, calls>>
               /\ last'.op = "get_upload_status"
               /\ last'.kind = "success"
               /\ last'.data[1] = metadata[u].status
               /\ last'.data[2] = metadata[u].total_chunks
               /\ last'.data[3] = metadata[u].uploaded_chunks
               /\ metadata[u].status = "uploading"
                    => ReportsRemaining(last', metadata[u])
       /\ \A status \in StatusFilters \ {"None"} :
            list_uploads(status)
            => /\ UNCHANGED <<metadata, tempDir, uploadDir, files, calls>>
               /\ {e[1] : e \in last'.data}
                    = {u \in Sessions : metadata[u].status = status}
               /\ \A e \in last'.data :
                    e = <<e[1], metadata[e[1]].status, metadata[e[1]].total_chunks,
                          metadata[e[1]].uploaded_chunks>>]_vars

\* C32: once merge_chunks has left a final file of a session whose SHA-256
\* is the declared file_hash, no later step (of a repeated merge_chunks,
\* cancel_upload, upload_chunk, pause_upload or resume_upload) truncates,
\* rewrites with other bytes or deletes that file.
C32_FinalFileKept ==
    [][\A u \in UploadIds :
        (/\ uploadDir[u].exists
         /\ metadata[u].exists
         /\ calculate_file_sha256(uploadDir[u].content) = metadata[u].file_hash)
        => uploadDir'[u] = uploadDir[u]]_vars

\* session u is not completed and every chunk listed in its uploaded_chunks
\* has its chunk file, so that merge_chunks can be called again
MergeRetryable(u) ==
    /\ metadata[u].status # "completed"
    /\ \A n \in ToSet(metadata[u].uploaded_chunks) : ChunkFileExists(tempDir[u], n)

\* C33: whenever a merge_chunks of an existing session returns an error, the
\* session is not completed and its chunk files are all still stored; and a
\* step that sets the status of a session to completed returns the success
\* response of merge_chunks.
C33_MergeErrorKeepsSession ==
    [][/\ \A c \in CallIds :
            (/\ calls[c].pc = "merge_find"
             /\ merge_chunks_finish(c)
             /\ last'.code # 200)
            => \A v \in {calls[c].upload_id} : MergeRetryable(v)'
       /\ \A c \in CallIds, u \in UploadIds :
            (/\ FirstIdle(c)
             /\ metadata[u].exists
             /\ calls'[c] = Idle
             /\ merge_chunks(c, u)
             /\ last'.code # 200)
            => \A v \in {u} : MergeRetryable(v)'
       /\ \A u \in UploadIds :
            (/\ metadata[u].exists
             /\ metadata[u].status # "completed"
             /\ metadata'[u].status = "completed")
            => /\ last'.op = "merge_chunks"
               /\ last'.upload_id = u
               /\ last'.kind = "success"]_vars

\* the upload id a step works on: that of the handler a slot began, resumed
\* or ended in the step, or that of the response the step returned
StepWorksOn(u) ==
    \/ \E c \in CallIds :
            /\ calls'[c] # calls[c]
            /\ \/ calls[c] # Idle /\ calls[c].upload_id = u
               \/ calls'[c] # Idle /\ calls'[c].upload_id = u
    \/ /\ last'.op \in {"upload_chunk", "merge_chunks", "pause_upload",
                      "resume_upload", "cancel_upload"}
       /\ last'.upload_id = u

\* C34: a step of init_chunked_upload, upload_chunk, merge_chunks,
\* pause_upload, resume_upload or cancel_upload changes the metadata, the
\* chunk directory, the final file and the row of no upload id but the one it
\* works on; and an init_chunked_upload that creates a session gives it an
\* upload id that no metadata file, chunk directory, row or running handler
\* has.
C34_SessionsIndependent ==
    [][/\ \A u \in UploadIds :
            (\/ metadata'[u] # metadata[u]
             \/ tempDir'[u] # tempDir[u]
             \/ uploadDir'[u] # uploadDir[u]
             \/ files'[u] # files[u])
            => /\ StepWorksOn(u)
               /\ \A v \in UploadIds \ {u} :
                    /\ metadata'[v] = metadata[v]
                    /\ tempDir'[v] = tempDir[v]
                    /\ uploadDir'[v] = uploadDir[v]
                    /\ files'[v] = files[v]
       /\ \A c \in CallIds :
            (calls[c] = Idle /\ calls'[c].pc = "init_insert")
            => \A u \in {calls'[c].upload_id} :
                /\ ~metadata[u].exists
                /\ ~tempDir[u].exists
                /\ ~uploadDir[u].exists
                /\ ~files[u].exists
                /\ \A d \in CallIds : calls[d] # Idle => calls[d].upload_id # u]_vars

\* C34 witness: two sessions, each with an uploaded chunk; the first was
\* cancelled and the second is still uploading with its chunk file
C34_Witness ==
    /\ metadata[1].exists
    /\ metadata[2].exists
    /\ metadata[1].status = "cancelled"
    /\ metadata[2].status = "uploading"
    /\ metadata[1].uploaded_chunks # <<>>
    /\ metadata[2].uploaded_chunks # <<>>
    /\ ~tempDir[1].exists
    /\ \A n \in ToSet(metadata[2].uploaded_chunks) : ChunkFileExists(tempDir[2], n)

C36_MergingEnds ==
    \A f \in FileIds : (File[f] = "merging") ~> (File[f] \in {"ok", "error"})

\* the request for file f is refused with a parameter error and the status of
\* the file, its rows and its files on disk are as before
Refused(f) ==
    /\ reply'.code = "param_error"
    /\ reply'.file_id = f
    /\ UNCHANGED <<File, MultipartUpload, MultipartUploadPart, partFiles,
                   storedFile, threads>>

\* complete_multipart_upload_file (either outcome) or
\* abort_multipart_upload_file has finished for file f
Finished(f) == File[f] \in {"ok", "error"}

\* C37: in the multipart upload of file/local.py, upload_file_part,
\* complete_multipart_upload_file and abort_multipart_upload_file act only on
\* a file in status uploading: on any other file they are refused; and once
\* complete (with either outcome) or abort has finished for a file, every
\* later upload_file_part, complete, abort and get_multipart_upload_file_status
\* for it fails with a parameter error and changes neither the status of the
\* file, its part rows nor its files on disk.
C37_OnlyWhileUploading ==
    [][\A f \in FileIds :
        \/ File[f] = "uploading"
        \/ reply'.file_id # f
        \/ Refused(f)
        \/ /\ reply'.op = "upload_file_part" =>
                ~\E part_number \in PartNumbers, full_size \in BOOLEAN,
                    content \in Bytes :
                      upload_file_part(f, part_number, full_size, content)
           /\ reply'.op = "complete" =>
                ~\E t \in ThreadIds : complete_multipart_upload_file(t, f)
           /\ reply'.op = "abort" => ~abort_multipart_upload_file(f)
           /\ reply'.op = "get_status" =>
                ~(Finished(f) /\ get_multipart_upload_file_status(f))]_vars

\* a file was completed and stored, and a later request for its status was
\* refused; the other file was aborted
C37_Witness ==
    \E f, g \in FileIds :
        /\ File[f] = "ok" /\ storedFile[f].exists
        /\ File[g] = "error"
        /\ reply = param_error("get_status", f, "file not found")

====
